---- MODULE Spec2Model ----
(***************************************************************************)
(* Model of probabilistic_automata/pa.py: Distribution, uniform, the       *)
(* memoised environment-distribution adaptor (_dict2dist), the PDFA        *)
(* class (validator, accessors, run, support, transition_probs, prob) and  *)
(* the constructors pdfa, lift and randomize.                              *)
(*                                                                         *)
(* Conventions.  Letters (system and environment actions) are naturals;    *)
(* Python's None is the letter 0.  Weights are exact rationals <<n, d>> in *)
(* lowest terms (Python uses floats; rounding is not modelled).  A Python  *)
(* dict is a sequence of <<key, value>> pairs with distinct keys, in       *)
(* insertion order.  Objects carry an id standing for their identity: the  *)
(* place that created them, the arguments it ran with and which of its     *)
(* runs it was.                                                            *)
(***************************************************************************)
EXTENDS Integers, Sequences, FiniteSets, TLC

\* ------------------------------------------------------------------ bounds
MaxNum == 2        \* weights of caller-supplied distributions are 0/2 .. MaxNum/2
MaxCalls == 2      \* cap on supplier invocations recorded per (state, action)
MaxSends == 2      \* cap on the actions sent to one simulator

\* ------------------------------------------------------------------ symbols
\* A hashable Python value used as a letter: an atom (None, 'a', 1, ...) or a
\* tuple of letters.  Only tuples answer isinstance(i, tuple).
Atom(n) == [tuple |-> FALSE, name |-> n, items |-> <<>>]
Tuple(items) == [tuple |-> TRUE, name |-> 0, items |-> items]
None == Atom(0)
Pair(a, e) == Tuple(<<a, e>>)

States == {0, 1}
Actions == {Atom(1), Atom(2)}
EnvActions == {Atom(3), Atom(4)}

\* ---------------------------------------------------------------- rationals
RECURSIVE GCD(_, _)
GCD(a, b) == IF b = 0 THEN a ELSE GCD(b, a % b)

Rat(n, d) == LET g == GCD(n, d) IN IF g = 0 THEN <<0, 1>> ELSE <<n \div g, d \div g>>
RZero == Rat(0, 1)
ROne == Rat(1, 1)
RAdd(p, q) == Rat(p[1] * q[2] + q[1] * p[2], p[2] * q[2])
RMul(p, q) == Rat(p[1] * q[1], p[2] * q[2])
RLess(p, q) == p[1] * q[2] < q[1] * p[2]

\* ------------------------------------------------------------- dict helpers
Keys(items) == {items[i][1] : i \in 1..Len(items)}
Get(items, k, default) ==
    IF k \in Keys(items)
    THEN items[CHOOSE i \in 1..Len(items) : items[i][1] = k][2]
    ELSE default
Put(f, k, v) == [x \in DOMAIN f \cup {k} |-> IF x = k THEN v ELSE f[x]]
Empty == [x \in {} |-> 0]
Returned(f, k) == IF k \in DOMAIN f THEN f[k] ELSE <<>>
Count(f, k) == Len(Returned(f, k))

RECURSIVE SumWeights(_)
SumWeights(pairs) ==
    IF pairs = <<>> THEN RZero ELSE RAdd(Head(pairs)[2], SumWeights(Tail(pairs)))

RECURSIVE SumValues(_, _)
SumValues(f, dom) ==
    IF dom = {} THEN RZero
    ELSE LET k == CHOOSE x \in dom : TRUE IN RAdd(f[k], SumValues(f, dom \ {k}))

\* ------------------------------------------------------------- Distribution
ObjId(site, key, n) == [site |-> site, key |-> key, n |-> n]
NoKey == <<0, None>>
NoId == ObjId("none", NoKey, 0)
Distribution(dist, id) == [isDist |-> TRUE, id |-> id, _dist |-> dist]
PlainDict(dist, id) == [isDist |-> FALSE, id |-> id, _dist |-> dist]

Distribution_call(self, action) == Get(self._dist, action, RZero)
Distribution_items(self) == self._dist

\* random.random() of the shared generator, abstracted as a full-period
\* linear congruential generator on 0..3: the new generator state and the
\* float in [0, 1) it yields.  random.seed(x) sets the state from x alone.
RngStates == 0..3
Random(r) == LET r2 == (5 * r + 3) % 4 IN [rng |-> r2, value |-> Rat(r2, 4)]
Seed(x) == x % 4
\* The shared generator: its state, and the generator of run() that seeded
\* it last if nothing else has drawn from it since (0 if none).
Rng(state, owner) == [state |-> state, owner |-> owner]

\* itertools.accumulate(weights): the running totals.
CumWeights(items) == [i \in 1..Len(items) |-> SumWeights(SubSeq(items, 1, i))]

\* bisect(cum_weights, x, 0, hi) with hi = n - 1: the first position whose
\* running total exceeds x, and the last position when there is none.
Bisect(cum, x) ==
    LET n == Len(cum)
        hits == {i \in 1..(n - 1) : RLess(x, cum[i])}
    IN IF hits = {} THEN n ELSE CHOOSE i \in hits : \A j \in hits : i <= j

Ok(v, r) == [ok |-> TRUE, value |-> v, error |-> "none", rng |-> r]
Raise(e, r) == [ok |-> FALSE, value |-> None, error |-> e, rng |-> r]

\* sample() in the manner of random.choice(list(...)): IndexError when empty.
Distribution_sample_choice(self, r) ==
    LET items == self._dist
        cum == CumWeights(items)
        total == cum[Len(items)]
        rnd == Random(r)
    IN IF items = <<>> THEN {Raise("IndexError", r)}
       ELSE IF ~RLess(RZero, total)
            THEN {Raise("ValueError", r), Ok(items[Len(items)][1], rnd.rng)}
            ELSE {Ok(items[Bisect(cum, RMul(rnd.value, total))][1], rnd.rng)}

\* Distribution.sample() with the shared generator in state r: the possible
\* outcomes, each with the generator's state after it.
\* zip(*{}.items()) yields nothing, so unpacking it into (actions, weights)
\* raises ValueError before the generator is used.  With a total weight of
\* zero random.choices raises ValueError from Python 3.9 on and returns the
\* last action before that.
Distribution_sample(self, r) ==
    LET items == self._dist
        cum == CumWeights(items)
        total == cum[Len(items)]
        rnd == Random(r)
    IN IF items = <<>> THEN {Raise("ValueError", r)}
       ELSE IF ~RLess(RZero, total)
            THEN {Raise("ValueError", r), Ok(items[Len(items)][1], rnd.rng)}
            ELSE {Ok(items[Bisect(cum, RMul(rnd.value, total))][1], rnd.rng)}

\* uniform with weight 1 for every action.
uniform_unnormalised(order, id) ==
    Distribution([i \in 1..Len(order) |-> <<order[i], ROne>>], id)

\* uniform(actions): the Distribution every (state, action) is mapped to;
\* order is the order in which the set actions is iterated.
uniform(order, id) ==
    LET size == Len(order)
    IN Distribution([i \in 1..size |-> <<order[i], Rat(1, size)>>], id)

\* The iteration orders of a finite set.
Orderings(S) ==
    {o \in [1..Cardinality(S) -> S] : \A i, j \in DOMAIN o : o[i] = o[j] => i = j}

\* The weights and the dicts a caller-supplied environment function returns;
\* the values it returns, as plain dicts and wrapped in a Distribution.
Weights == {Rat(n, 2) : n \in 0..MaxNum}
Dicts(E) ==
    UNION {{[i \in 1..Len(o) |-> <<o[i], w[i]>>] : w \in [1..Len(o) -> Weights]} :
           o \in UNION {Orderings(S) : S \in SUBSET E}}
AsDicts(ds) == {PlainDict(d, NoId) : d \in ds}
AsDistributions(ds) == {Distribution(d, NoId) : d \in ds}

\* ---------------------------------------------------------------------- DFA
\* The wrapped automaton (package dfa): start state, alphabet and transition
\* function; labels and outputs play no part in what is modelled.
DFA(start, inputs, transition) ==
    [start |-> start, inputs |-> inputs, _transition |-> transition]
ProductAlphabet(left, right) == {Pair(a, e) : a \in left, e \in right}

\* --------------------------------------------------------------------- PDFA
VARIABLES
    machine,          \* the PDFA built, when built = "yes"
    built,            \* "no", "yes", or "failed" when the constructor raised
    how,              \* the constructor called: "pdfa", "lift", "randomize", "PDFA"
    dyn,              \* the automaton given to the constructor
    error,            \* the exception the last operation raised, or "none"
    memory,           \* fn.memoize's memory of env_dist2: <<state, action>> -> Distribution
    calls,            \* per <<state, action>>, what the wrapped env_dist returned
                      \* at each of its invocations
    support_memory,   \* fn.memoize's memory of PDFA.support
    ret,              \* the last call of a PDFA method and what it returned
    rng,              \* the state of the shared generator of module random
    sims              \* the generators machine.run(...) returned

static == <<machine, built, how, dyn>>
vars == <<machine, built, how, dyn, error, memory, calls, support_memory, ret,
         rng, sims>>

\* env_dist descriptors.  A constant function (lambda *_: dist, as uniform
\* returns) yields the same object for all arguments; a function of a caller
\* that looks its arguments up in a table yields a new object with the
\* table's entries each time; any other function of a caller yields what
\* the caller pleases, new objects each time.
ConstEnv(dist) == [kind |-> "const", dist |-> dist, range |-> {dist}]
TableEnv(table) ==
    [kind |-> "table", dist |-> Distribution(<<>>, NoId),
     range |-> {table[k] : k \in DOMAIN table}, table |-> table]
CallerEnv(range) == [kind |-> "caller", dist |-> Distribution(<<>>, NoId), range |-> range]

\* The validator without the test of the length.
_check_tuple_only(dfa) == \A i \in dfa.inputs : i.tuple

_check_product_lang(dfa) == \A i \in dfa.inputs : i.tuple /\ Len(i.items) = 2

PDFA_env_inputs(self) == {i.items[2] : i \in self.dfa.inputs}
PDFA_inputs(self) == {i.items[1] : i \in self.dfa.inputs}
PDFA_start(self) == self.dfa.start

\* PDFA(dfa=..., env_dist=...): attrs runs the validator of dfa on the new
\* object; a failed assert raises AssertionError and no PDFA is returned.
PDFA(dfa, env_dist) ==
    [ok |-> _check_product_lang(dfa),
     value |-> [dfa |-> dfa, env_dist |-> env_dist],
     error |-> IF _check_product_lang(dfa) THEN "none" ELSE "AssertionError"]

\* The function given to _dict2dist, called once: the values it may return.
env_dist(self, state, action) ==
    IF self.env_dist.kind = "const"
    THEN {self.env_dist.dist}
    ELSE {[isDist |-> v.isDist,
           id |-> ObjId("env_dist", <<state, action>>, Count(calls, <<state, action>>) + 1),
           _dist |-> v._dist] :
            v \in IF self.env_dist.kind = "table"
                  THEN {self.env_dist.table[<<state, action>>]}
                  ELSE self.env_dist.range}

\* env_dist2 without fn.memoize: env_dist is called on every query.
env_dist2_unmemoized(self, state, action) ==
    LET key == <<state, action>>
    IN /\ Count(calls, key) < MaxCalls
       /\ \E raw \in env_dist(self, state, action) :
            LET dist == IF raw.isDist THEN raw
                        ELSE Distribution(raw._dist, ObjId("env_dist2", key, raw.id.n))
            IN /\ memory' = Put(memory, key, dist)
               /\ calls' = Put(calls, key, Append(Returned(calls, key), raw))

\* _dict2dist's env_dist2 under fn.memoize: a remembered key is answered from
\* memory; otherwise env_dist is called, its value wrapped in a Distribution
\* unless it is one, and the result remembered.
env_dist2(self, state, action) ==
    LET key == <<state, action>>
    IN IF key \in DOMAIN memory
       THEN UNCHANGED <<memory, calls>>
       ELSE /\ Count(calls, key) < MaxCalls
            /\ \E raw \in env_dist(self, state, action) :
                 LET dist == IF raw.isDist THEN raw
                             ELSE Distribution(raw._dist, ObjId("env_dist2", key, raw.id.n))
                 IN /\ memory' = Put(memory, key, dist)
                    /\ calls' = Put(calls, key, Append(Returned(calls, key), raw))

\* PDFA._probs: the (end, p) pairs, one per entry of the Distribution.
_probs(self, mem, start, action) ==
    LET items == Distribution_items(mem[<<start, action>>])
    IN [i \in 1..Len(items) |->
          <<self.dfa._transition[start, Pair(action, items[i][1])], items[i][2]>>]

RECURSIVE Accumulate(_, _)
Accumulate(pairs, probs) ==
    IF pairs = <<>> THEN probs
    ELSE LET end == Head(pairs)[1]
             old == IF end \in DOMAIN probs THEN probs[end] ELSE RZero
         IN Accumulate(Tail(pairs), Put(probs, end, RAdd(old, Head(pairs)[2])))

\* transition_probs with probs[end] = prob in place of probs[end] += prob.
RECURSIVE Overwrite(_, _)
Overwrite(pairs, probs) ==
    IF pairs = <<>> THEN probs
    ELSE Overwrite(Tail(pairs), Put(probs, Head(pairs)[1], Head(pairs)[2]))
transition_probs_overwrite(self, mem, state, action) ==
    Overwrite(_probs(self, mem, state, action), Empty)

\* PDFA.transition_probs: a defaultdict, one key per end state met.
transition_probs(self, mem, state, action) ==
    Accumulate(_probs(self, mem, state, action), Empty)

\* prob that stops at the first environment action leading to end.
prob_first(self, mem, start, end, action) ==
    LET IsEnd(sp) == sp[1] = end
        found == SelectSeq(_probs(self, mem, start, action), IsEnd)
    IN IF found = <<>> THEN RZero ELSE found[1][2]

\* PDFA.prob
prob(self, mem, start, end, action) ==
    LET IsEnd(sp) == sp[1] = end
    IN SumWeights(SelectSeq(_probs(self, mem, start, action), IsEnd))

\* support that keeps only the states of positive probability.
support_positive(self, mem, smem, state, action) ==
    IF <<state, action>> \in DOMAIN smem
    THEN smem[<<state, action>>]
    ELSE {end \in DOMAIN transition_probs(self, mem, state, action) :
            RLess(RZero, transition_probs(self, mem, state, action)[end])}

\* PDFA.support under fn.memoize: the value for (self, state, action).
support(self, mem, smem, state, action) ==
    IF <<state, action>> \in DOMAIN smem
    THEN smem[<<state, action>>]
    ELSE DOMAIN transition_probs(self, mem, state, action)

\* ------------------------------------------------------------- constructors
\* pdfa(start, label, transition, env_dist, inputs, env_inputs, outputs) with
\* finite inputs and env_inputs given.
pdfa(start, transition, envd, inputs, env_inputs) ==
    PDFA(DFA(start, ProductAlphabet(inputs, env_inputs), transition), envd)

\* lift whose transition starts from dyn's start state, not from s.
lift_from_start(d, id) ==
    PDFA(DFA(d.start, ProductAlphabet(d.inputs, {None}),
             [s \in States, c \in ProductAlphabet(d.inputs, {None}) |->
                 d._transition[d.start, c.items[1]]]),
         ConstEnv(uniform(<<None>>, id)))

\* lift(dyn); id is the identity of the Distribution uniform creates.
lift(d, id) ==
    PDFA(DFA(d.start, ProductAlphabet(d.inputs, {None}),
             [s \in States, c \in ProductAlphabet(d.inputs, {None}) |->
                 d._transition[s, c.items[1]]]),
         ConstEnv(uniform(<<None>>, id)))

\* randomize(dyn); order is the order in which uniform iterates dyn.inputs.
randomize(d, order, id) ==
    PDFA(DFA(d.start, ProductAlphabet({None}, d.inputs),
             [s \in States, c \in ProductAlphabet({None}, d.inputs) |->
                 d._transition[s, c.items[2]]]),
         ConstEnv(uniform(order, id)))

\* ------------------------------------------------------ state and its start
NoDist == Distribution(<<>>, NoId)
NoRet ==
    [op |-> "none", state |-> 0, action |-> None, end |-> 0,
     probs |-> Empty, p |-> RZero, supp |-> {}, dist |-> NoDist, hit |-> FALSE]
NoDFA == DFA(0, {}, Empty)
NoPDFA == [dfa |-> NoDFA, env_dist |-> CallerEnv({})]

\* The generators: run() has not been called.
SimIds == {1, 2}
Unborn ==
    [pc |-> "unborn", start |-> <<>>, seed |-> <<>>, state |-> 0, dfa_state |-> 0,
     sent |-> <<>>, out |-> <<>>, drawn |-> <<>>, error |-> "none", alone |-> FALSE]
NoSims ==
    /\ rng = Rng(0, 0)
    /\ sims = [i \in SimIds |-> Unborn]

Fresh ==
    /\ error = "none"
    /\ memory = Empty
    /\ calls = Empty
    /\ support_memory = Empty
    /\ ret = NoRet

\* ------------------------------------------------- calls of the PDFA methods
\* machine.env_dist(state, action)
CallEnvDist(state, action) ==
    /\ built = "yes"
    /\ env_dist2(machine, state, action)
    /\ ret' = [NoRet EXCEPT !.op = "env_dist", !.state = state, !.action = action,
                            !.dist = memory'[<<state, action>>],
                            !.hit = (<<state, action>> \in DOMAIN memory)]
    /\ UNCHANGED <<static, error, support_memory, rng, sims>>

\* machine.transition_probs(state, action)
CallTransitionProbs(state, action) ==
    /\ built = "yes"
    /\ env_dist2(machine, state, action)
    /\ ret' = [NoRet EXCEPT !.op = "transition_probs", !.state = state,
                            !.action = action,
                            !.probs = transition_probs(machine, memory', state, action)]
    /\ UNCHANGED <<static, error, support_memory, rng, sims>>

\* machine.prob(start, end, action)
CallProb(start, end, action) ==
    /\ built = "yes"
    /\ env_dist2(machine, start, action)
    /\ ret' = [NoRet EXCEPT !.op = "prob", !.state = start, !.action = action,
                            !.end = end,
                            !.p = prob(machine, memory', start, end, action)]
    /\ UNCHANGED <<static, error, support_memory, rng, sims>>

\* machine.support(state, action); env_dist is consulted only when the value
\* is not in support's memory.
CallSupport(state, action) ==
    /\ built = "yes"
    /\ IF <<state, action>> \in DOMAIN support_memory
       THEN UNCHANGED <<memory, calls>>
       ELSE env_dist2(machine, state, action)
    /\ LET value == support(machine, memory', support_memory, state, action)
       IN /\ support_memory' = Put(support_memory, <<state, action>>, value)
          /\ ret' = [NoRet EXCEPT !.op = "support", !.state = state,
                                  !.action = action, !.supp = value,
                                  !.hit = (<<state, action>> \in DOMAIN support_memory)]
    /\ UNCHANGED <<static, error, rng, sims>>

\* -------------------------------------------- queries of a PDFA from pdfa()
QueryInputs == {Atom(1)}
QueryMachines ==
    {pdfa(0, t, ConstEnv(raw), QueryInputs, EnvActions).value :
        t \in [States \X ProductAlphabet(QueryInputs, EnvActions) -> States],
        raw \in {Distribution(d, ObjId("caller", NoKey, 1)) : d \in Dicts(EnvActions)}
                \cup {PlainDict(d, ObjId("caller", NoKey, 1)) : d \in Dicts(EnvActions)}}

InitQuery ==
    /\ NoSims
    /\ machine \in QueryMachines
    /\ built = "yes"
    /\ how = "pdfa"
    /\ dyn = NoDFA
    /\ Fresh

NextQuery ==
    \/ \E s \in States, a \in PDFA_inputs(machine) : CallEnvDist(s, a)
    \/ \E s \in States, a \in PDFA_inputs(machine) : CallTransitionProbs(s, a)
    \/ \E s \in States, e \in States, a \in PDFA_inputs(machine) : CallProb(s, e, a)
    \/ \E s \in States, a \in PDFA_inputs(machine) : CallSupport(s, a)

SpecQuery == InitQuery /\ [][NextQuery]_vars

\* ------------------------------------------------------------- construction
\* The alphabets of the automata given: atoms, pairs and tuples of other
\* lengths, at most three letters.
DynPool ==
    {Atom(1), Atom(2), Pair(Atom(1), Atom(3)), Tuple(<<Atom(1)>>),
     Tuple(<<Atom(1), Atom(3), Atom(4)>>)}
DynAlphabets == {A \in SUBSET DynPool : Cardinality(A) <= 3}
Dyns ==
    UNION {{DFA(0, A, t) : t \in [States \X A -> States]} : A \in DynAlphabets}

\* The outcome of a constructor call.
Construct(name, r) ==
    /\ built = "no"
    /\ how' = name
    /\ built' = IF r.ok THEN "yes" ELSE "failed"
    /\ machine' = IF r.ok THEN r.value ELSE machine
    /\ error' = r.error
    /\ UNCHANGED <<dyn, memory, calls, support_memory, ret, rng, sims>>

\* lift(dyn)
Lift ==
    Construct("lift", lift(dyn, ObjId("uniform", NoKey, 1)))

\* randomize(dyn)
Randomize ==
    \E order \in Orderings(dyn.inputs) :
        Construct("randomize", randomize(dyn, order, ObjId("uniform", NoKey, 1)))

\* PDFA(dfa=dyn, env_dist=f) for a function f of the caller.
NewPDFA ==
    Construct("PDFA", PDFA(dyn, CallerEnv(AsDicts({<<>>}))))

\* pdfa(dyn.start, label, t, f, inputs=dyn.inputs, env_inputs=E) for a
\* transition function t over the pairs and a function f of the caller.
Pdfa ==
    \E E \in {{None}, EnvActions} :
          \E t \in {[s \in States, c \in ProductAlphabet(dyn.inputs, E) |->
                        dyn._transition[s, c.items[1]]],
                    [s \in States, c \in ProductAlphabet(dyn.inputs, E) |-> s]} :
             Construct("pdfa", pdfa(dyn.start, t, CallerEnv(AsDicts(Dicts(E))), dyn.inputs, E))

InitCons ==
    /\ NoSims
    /\ machine = NoPDFA
    /\ built = "no"
    /\ how = "none"
    /\ dyn \in Dyns
    /\ Fresh

NextCons ==
    \/ Lift
    \/ Randomize
    \/ NewPDFA
    \/ Pdfa
    \/ /\ machine.env_dist.kind = "const"
       /\ \E s \in States, a \in PDFA_inputs(machine) : CallTransitionProbs(s, a)

SpecCons == InitCons /\ [][NextCons]_vars

\* ------------------------------------- queries of the environment function
\* PDFAs from pdfa() over a function of the caller whose values are chosen
\* when it is called; every symbol leads to one state q.
CacheMachines ==
    {pdfa(0, [s \in States, c \in ProductAlphabet(QueryInputs, EnvActions) |-> q],
          CallerEnv(AsDicts(Dicts(EnvActions)) \cup AsDistributions(Dicts(EnvActions))),
          QueryInputs, EnvActions).value : q \in States}

InitCache ==
    /\ NoSims
    /\ machine \in CacheMachines
    /\ built = "yes"
    /\ how = "pdfa"
    /\ dyn = NoDFA
    /\ Fresh

NextCache ==
    \/ \E s \in States, a \in PDFA_inputs(machine) : CallEnvDist(s, a)
    \/ \E s \in States, a \in PDFA_inputs(machine) : CallTransitionProbs(s, a)

SpecCache == InitCache /\ [][NextCache]_vars

\* ---------------------------------------------------------------- PDFA.run
\* run(start=..., seed=...): an argument left out (None) is <<>>, one given
\* is <<v>>.  Calling run only creates the generator; its body runs from the
\* first next() on.

\* The seeding without effect.
run_seed_ignored(seed, r) == r

\* Lines 115-116, run on the first next(): the generator state after them.
run_seed(seed, r) == IF seed = <<>> THEN r ELSE Seed(seed[1])

\* The start state by "start or self.start".
run_start_falsy(self, start) ==
    IF start = <<>> \/ start = <<0>> THEN PDFA_start(self) ELSE start[1]

\* Line 118.
run_start(self, start) == IF start = <<>> THEN PDFA_start(self) ELSE start[1]

\* self.dfa.run(start=start) and its send: the DFA's coroutine moves from its
\* own current state by the DFA's transition function and yields the result.
dfa_run_start(dfa, start) == IF start = <<>> THEN dfa.start ELSE start[1]
dfa_run_send(dfa, dfa_state, letter) == dfa._transition[dfa_state, letter]

\* sim = machine.run(start=start, seed=seed); the generators are numbered
\* in the order of their creation.
Run(i, start, seed) ==
    /\ built = "yes"
    /\ sims[i].pc = "unborn"
    /\ \A j \in SimIds : j < i => sims[j].pc # "unborn"
    /\ sims' = [sims EXCEPT ![i] = [@ EXCEPT !.pc = "created", !.start = start,
                                              !.seed = seed]]
    /\ UNCHANGED <<static, error, memory, calls, support_memory,
                   ret, rng>>

\* next(sim): lines 115-119 and the first yield.
Start(i) ==
    /\ sims[i].pc = "created"
    /\ rng' = Rng(run_seed(sims[i].seed, rng.state),
                  IF sims[i].seed = <<>> THEN rng.owner ELSE i)
    /\ sims' = [sims EXCEPT ![i] =
                  [@ EXCEPT !.pc = "suspended",
                            !.state = run_start(machine, sims[i].start),
                            !.dfa_state = dfa_run_start(machine.dfa, sims[i].start),
                            !.out = <<run_start(machine, sims[i].start)>>,
                            !.alone = (sims[i].seed # <<>>)]]
    /\ error' = "none"
    /\ UNCHANGED <<static, memory, calls, support_memory, ret>>

\* sim.send(sys_action): lines 122-124 and the next yield, or the exception
\* of sample(), which ends the generator.
Send(i, sys_action) ==
    /\ sims[i].pc = "suspended"
    /\ Len(sims[i].sent) < MaxSends
    /\ env_dist2(machine, sims[i].state, sys_action)
    /\ \E o \in Distribution_sample(memory'[<<sims[i].state, sys_action>>], rng.state) :
          LET drew == o.rng # rng.state
              state == dfa_run_send(machine.dfa, sims[i].dfa_state,
                                    Pair(sys_action, o.value))
          IN /\ rng' = IF drew
                       THEN Rng(o.rng, IF rng.owner = i THEN i ELSE 0)
                       ELSE rng
             /\ error' = o.error
             /\ sims' = [sims EXCEPT ![i] =
                  IF o.ok
                  THEN [@ EXCEPT !.state = state, !.dfa_state = state,
                                 !.sent = Append(@, sys_action),
                                 !.out = Append(@, state),
                                 !.drawn = Append(@, o.value),
                                 !.alone = @ /\ (drew => rng.owner = i)]
                  ELSE [@ EXCEPT !.pc = "raised",
                                 !.sent = Append(@, sys_action),
                                 !.error = o.error]]
    /\ UNCHANGED <<static, support_memory, ret>>

\* sim.send(...) after the exception: the generator has ended.
SendEnded(i) ==
    /\ sims[i].pc = "raised"
    /\ error' = "StopIteration"
    /\ UNCHANGED <<static, memory, calls, support_memory, ret,
                   rng, sims>>

\* The machines simulated.  Their environment functions look the dict up in
\* a table: the same dict everywhere; no entry at state 0; an entry of
\* weight 0 where action 1 is sent and no entry at state 0 on action 2.
Half == << <<Atom(3), Rat(1, 2)>>, <<Atom(4), Rat(1, 2)>> >>
ZeroFirst == << <<Atom(4), Rat(0, 1)>>, <<Atom(3), Rat(1, 1)>> >>
SimTables ==
    {[k \in States \X Actions |-> PlainDict(Half, NoId)],
     [k \in States \X Actions |-> PlainDict(IF k[1] = 0 THEN <<>> ELSE Half, NoId)],
     [k \in States \X Actions |->
         PlainDict(IF k[2] = Atom(1) THEN ZeroFirst
                   ELSE IF k[1] = 0 THEN <<>> ELSE Half, NoId)]}
SimTransitions ==
    {[s \in States, c \in ProductAlphabet(Actions, EnvActions) |->
         IF c.items[2] = Atom(3) THEN s ELSE 1 - s],
     [s \in States, c \in ProductAlphabet(Actions, EnvActions) |->
         IF c.items[1] = Atom(1) THEN (IF c.items[2] = Atom(3) THEN 0 ELSE 1) ELSE s]}
SimMachines ==
    {pdfa(1, t, TableEnv(e), Actions, EnvActions).value :
        t \in SimTransitions, e \in SimTables}
Starts == {<<>>, <<0>>}
Seeds == {<<>>, <<1>>}

InitSim ==
    /\ machine \in SimMachines
    /\ built = "yes"
    /\ how = "pdfa"
    /\ dyn = NoDFA
    /\ Fresh
    /\ rng \in {Rng(r, 0) : r \in RngStates}
    /\ sims = [i \in SimIds |-> Unborn]

NextSim ==
    \/ \E i \in SimIds, start \in Starts, seed \in Seeds : Run(i, start, seed)
    \/ \E i \in SimIds : Start(i)
    \/ \E i \in SimIds, a \in PDFA_inputs(machine) : Send(i, a)
    \/ \E i \in SimIds : SendEnded(i)

SpecSim == InitSim /\ [][NextSim]_vars

\* What the last call was about.
RetKey == <<ret.state, ret.action>>
RetItems == Distribution_items(memory[RetKey])
RetEnd(e) == machine.dfa._transition[ret.state, Pair(ret.action, e)]
\* The total weight of the environment actions in E, by the Distribution asked.
Mass(E) ==
    SumWeights(SelectSeq(RetItems, LAMBDA kv : kv[1] \in E))
AllPositive == \A i \in 1..Len(RetItems) : RLess(RZero, RetItems[i][2])

\* C1 Mass conservation: the values of transition_probs(s, a) add up to the
\* total weight of env_dist(s, a).items(), also when environment actions
\* share a destination and when the weights do not add up to 1.
C1_MassConservation ==
    ret.op = "transition_probs" =>
        SumValues(ret.probs, DOMAIN ret.probs) = SumWeights(RetItems)

\* Two environment actions of positive weight collapse onto one destination
\* and the total weight is not 1.
C1_Witness ==
    /\ ret.op = "transition_probs"
    /\ Len(RetItems) = 2
    /\ AllPositive
    /\ Cardinality(DOMAIN ret.probs) = 1
    /\ SumWeights(RetItems) # ROne

\* C7 prob agrees with transition_probs: prob(start, end, action) is the
\* total weight of the environment actions e with
\* transition(start, (action, e)) = end, and equals
\* transition_probs(start, action).get(end, 0).
C7_ProbAgrees ==
    ret.op = "prob" =>
        LET tp == transition_probs(machine, memory, ret.state, ret.action)
        IN /\ ret.p = Mass({e \in Keys(RetItems) : RetEnd(e) = ret.end})
           /\ ret.p = IF ret.end \in DOMAIN tp THEN tp[ret.end] ELSE RZero

\* prob of an end state that two environment actions of positive weight reach.
C7_Witness ==
    /\ ret.op = "prob"
    /\ Len(RetItems) = 2
    /\ AllPositive
    /\ \A e \in Keys(RetItems) : RetEnd(e) = ret.end

\* C6 Support consistency: support(s, a) is the set of keys of
\* transition_probs(s, a), every destination of an enumerated environment
\* action whatever its weight; with strictly positive weights it is the set
\* of end states with prob(s, end, a) > 0; and every call for (s, a), the
\* first and the repeated ones, returns that same set.
C6_SupportConsistency ==
    /\ ret.op = "support" =>
          /\ ret.supp = DOMAIN transition_probs(machine, memory, ret.state, ret.action)
          /\ ret.supp = {RetEnd(e) : e \in Keys(RetItems)}
          /\ AllPositive =>
                ret.supp = {end \in States :
                    RLess(RZero, prob(machine, memory, ret.state, end, ret.action))}
          /\ ret.supp = support_memory[RetKey]
    /\ \A k \in DOMAIN support_memory :
          /\ k \in DOMAIN memory
          /\ support_memory[k] = DOMAIN transition_probs(machine, memory, k[1], k[2])

\* A repeated call of support on strictly positive weights with two
\* destinations.
C6_Witness ==
    /\ ret.op = "support"
    /\ ret.hit
    /\ AllPositive
    /\ Cardinality(ret.supp) = 2

IsPair(i) == i.tuple /\ Len(i.items) = 2

\* C9 Product-alphabet invariant: PDFA(...) over an automaton with a symbol
\* that is not a 2-element tuple raises (AssertionError) and yields no PDFA;
\* every PDFA built, also by pdfa(), lift() and randomize(), has an alphabet
\* of pairs, inputs and env_inputs being its two projections.
C9_ProductAlphabet ==
    /\ how = "PDFA" =>
          (built = "failed" <=> \E i \in dyn.inputs : ~IsPair(i))
    /\ how \in {"pdfa", "lift", "randomize"} => built = "yes"
    /\ built = "failed" => error = "AssertionError" /\ machine = NoPDFA
    /\ built = "yes" =>
          /\ error = "none"
          /\ \A i \in machine.dfa.inputs : IsPair(i)
          /\ PDFA_inputs(machine) = {i.items[1] : i \in machine.dfa.inputs}
          /\ PDFA_env_inputs(machine) = {i.items[2] : i \in machine.dfa.inputs}
          /\ machine.dfa.inputs \subseteq
                ProductAlphabet(PDFA_inputs(machine), PDFA_env_inputs(machine))
          /\ how = "PDFA" => machine.dfa = dyn
          /\ how = "lift" /\ dyn.inputs # {} =>
                PDFA_inputs(machine) = dyn.inputs /\ PDFA_env_inputs(machine) = {None}
          /\ how = "randomize" /\ dyn.inputs # {} =>
                PDFA_inputs(machine) = {None} /\ PDFA_env_inputs(machine) = dyn.inputs

\* PDFA(...) refused an alphabet that holds a pair and a tuple of another
\* length.
C9_Witness ==
    /\ how = "PDFA"
    /\ built = "failed"
    /\ \E i \in dyn.inputs : IsPair(i)
    /\ \E i \in dyn.inputs : i.tuple /\ ~IsPair(i)

\* C4 Lift fidelity: lift(dyn).transition_probs(s, a) is the one-entry
\* mapping {dyn_transition(s, a): 1}; None is the only environment action
\* and carries the whole weight.
C4_LiftFidelity ==
    how = "lift" /\ ret.op = "transition_probs" =>
        /\ ret.action \in dyn.inputs
        /\ DOMAIN ret.probs = {dyn._transition[ret.state, ret.action]}
        /\ ret.probs[dyn._transition[ret.state, ret.action]] = ROne
        /\ RetItems = << <<None, ROne>> >>
        /\ PDFA_env_inputs(machine) = {None}

\* transition_probs of a lifted automaton from a state other than its start,
\* on an action that leads elsewhere from the start state.
C4_Witness ==
    /\ how = "lift"
    /\ ret.op = "transition_probs"
    /\ ret.state # dyn.start
    /\ dyn._transition[ret.state, ret.action] # dyn._transition[dyn.start, ret.action]

\* The inputs of dyn that lead from the state asked to t.
InputsTo(t) == {i \in dyn.inputs : dyn._transition[ret.state, i] = t}

\* C5 Randomize fidelity: for dyn with a finite non-empty alphabet,
\* randomize(dyn).transition_probs(s, None) gives every state t the weight
\* k/|dyn.inputs|, k the number of inputs i with dyn_transition(s, i) = t
\* (no entry when k = 0); the system alphabet is {None} and the environment
\* alphabet is dyn.inputs.
C5_RandomizeFidelity ==
    how = "randomize" /\ ret.op = "transition_probs" /\ dyn.inputs # {} =>
        /\ ret.action = None
        /\ DOMAIN ret.probs = {t \in States : InputsTo(t) # {}}
        /\ \A t \in DOMAIN ret.probs :
              ret.probs[t] = Rat(Cardinality(InputsTo(t)), Cardinality(dyn.inputs))
        /\ PDFA_inputs(machine) = {None}
        /\ PDFA_env_inputs(machine) = dyn.inputs

\* Three inputs, two of which lead to the same state and one elsewhere.
C5_Witness ==
    /\ how = "randomize"
    /\ ret.op = "transition_probs"
    /\ Cardinality(dyn.inputs) = 3
    /\ \E t, u \in DOMAIN ret.probs :
          ret.probs[t] = Rat(2, 3) /\ ret.probs[u] = Rat(1, 3)

\* What holds of the memory of env_dist2 in every state.
CacheInv ==
    /\ \A k \in DOMAIN calls : Len(calls[k]) <= 1
    /\ DOMAIN calls = DOMAIN memory
    /\ \A k \in DOMAIN memory :
          /\ memory[k].isDist
          /\ IF calls[k][1].isDist
             THEN memory[k] = calls[k][1]
             ELSE memory[k]._dist = calls[k][1]._dist /\ memory[k].id # calls[k][1].id
    /\ ret.op = "env_dist" => ret.dist = memory[RetKey]

\* What holds of every step: entries are added, none is changed or dropped,
\* and a query of a remembered pair does not call the wrapped function.
CacheStep ==
    /\ \A k \in DOMAIN memory : k \in DOMAIN memory' /\ memory'[k] = memory[k]
    /\ \A k \in DOMAIN memory : Count(calls', k) = Count(calls, k)

\* C10 Caching of the environment-distribution adaptor: the function given
\* is called at most once per (state, action); later queries of the pair
\* return the very object of the first one; the result is a Distribution (a
\* plain mapping wrapped, a Distribution passed through); entries of the
\* memory are added only, never changed or evicted.
C10_Caching == []CacheInv /\ [][CacheStep]_vars

\* A repeated query of a pair whose dict was wrapped, with another pair
\* remembered too.
C10_Witness ==
    /\ ret.op = "env_dist"
    /\ ret.hit
    /\ Cardinality(DOMAIN memory) = 2
    /\ ret.dist._dist # <<>>
    /\ \E k \in DOMAIN memory : memory[k] # ret.dist

\* ------------------------------------------------------------ simulations
Started(i) == sims[i].pc \in {"suspended", "raised"}
Last(q) == q[Len(q)]
Min(a, b) == IF a <= b THEN a ELSE b
\* The Distribution generator i sampled at its k-th send.
DistAt(i, k) == memory[<<sims[i].out[k], sims[i].sent[k]>>]
PositiveTotal(d) == RLess(RZero, SumWeights(d._dist))

\* Every completed step of generator i: the state exposed is the transition
\* from the state before on (action sent, action drawn), the action drawn
\* being an entry of positive weight of env_dist(state before, action sent).
StepsOf(i) ==
    /\ sims[i].out[1] =
          (IF sims[i].start = <<>> THEN machine.dfa.start ELSE sims[i].start[1])
    /\ sims[i].state = Last(sims[i].out)
    /\ Len(sims[i].drawn) = Len(sims[i].out) - 1
    /\ \A k \in 1..Len(sims[i].drawn) :
          /\ RLess(RZero, Distribution_call(DistAt(i, k), sims[i].drawn[k]))
          /\ sims[i].out[k + 1] =
                machine.dfa._transition[sims[i].out[k],
                                        Pair(sims[i].sent[k], sims[i].drawn[k])]

\* C3 as claimed: a started simulator has exposed the start state and one
\* state per action sent, and has not ended.
C3_AsClaimed ==
    \A i \in SimIds : Started(i) =>
        /\ StepsOf(i)
        /\ sims[i].pc = "suspended"
        /\ Len(sims[i].out) = Len(sims[i].sent) + 1

\* C3 Simulator step protocol (amended): a simulator first exposes the start
\* state (the override if given); for every action a sent at state s whose
\* env_dist(s, a) has positive total weight it exposes exactly one state
\* transition(s, (a, e)), e an entry drawn from env_dist(s, a), which is the
\* state of the next step; it ends only by the exception of sample() on a
\* Distribution without positive total weight, exposing no state.
C3_StepProtocol ==
    \A i \in SimIds : Started(i) =>
        /\ StepsOf(i)
        /\ sims[i].pc = "suspended" => Len(sims[i].out) = Len(sims[i].sent) + 1
        /\ sims[i].pc = "raised" =>
              /\ Len(sims[i].out) = Len(sims[i].sent)
              /\ ~PositiveTotal(DistAt(i, Len(sims[i].sent)))
        /\ \A k \in 1..Len(sims[i].sent) :
              PositiveTotal(DistAt(i, k)) => k < Len(sims[i].out)

\* A simulator started at the override has made two steps to two other
\* states.
C3_Witness ==
    \E i \in SimIds :
        /\ sims[i].pc = "suspended"
        /\ sims[i].start = <<0>>
        /\ Len(sims[i].out) = 3
        /\ sims[i].out[2] # sims[i].out[1]
        /\ sims[i].out[3] # sims[i].out[2]
        /\ sims[i].sent[1] # sims[i].sent[2]

\* C8 as claimed: the exception of sample() on an empty Distribution is an
\* EmptyDistributionError.
C8_AsClaimed ==
    \A i \in SimIds : sims[i].pc = "raised" => sims[i].error = "EmptyDistributionError"

\* C8 (amended): sample() on a Distribution with no entries raises
\* ValueError and returns no action; a simulator step at a (state, action)
\* with an empty Distribution raises it, exposes no next state and keeps the
\* current state; no step at an empty Distribution exposes a state.
C8_EmptySample ==
    \A i \in SimIds :
        /\ \A k \in 1..Len(sims[i].sent) :
              DistAt(i, k)._dist = <<>> =>
                  /\ sims[i].pc = "raised"
                  /\ k = Len(sims[i].sent)
                  /\ Len(sims[i].out) = k
                  /\ sims[i].error = "ValueError"
                  /\ sims[i].state = sims[i].out[k]
        /\ sims[i].pc = "raised" => DistAt(i, Len(sims[i].sent))._dist = <<>>
        /\ sims[i].pc # "raised" => sims[i].error = "none"

\* The second send of a simulator met an empty Distribution.
C8_Witness ==
    \E i \in SimIds :
        /\ sims[i].pc = "raised"
        /\ Len(sims[i].sent) = 2
        /\ error = "ValueError"

\* Generators i and j agree: wherever the actions sent before a position are
\* the same, the states exposed at it are, and so is ending there.
Agree(i, j) ==
    /\ \A k \in 1..Min(Len(sims[i].out), Len(sims[j].out)) :
          SubSeq(sims[i].sent, 1, k - 1) = SubSeq(sims[j].sent, 1, k - 1) =>
              sims[i].out[k] = sims[j].out[k]
    /\ sims[i].pc = "raised" /\ Len(sims[i].sent) <= Len(sims[j].sent)
          /\ sims[i].sent = SubSeq(sims[j].sent, 1, Len(sims[i].sent))
          => sims[j].pc = "raised" /\ Len(sims[j].sent) = Len(sims[i].sent)
SameRun(i, j) ==
    /\ Started(i) /\ Started(j)
    /\ sims[i].seed # <<>>
    /\ sims[i].seed = sims[j].seed
    /\ sims[i].start = sims[j].start

\* C2 as claimed: any two simulators of the PDFA with the same seed agree.
C2_AsClaimed ==
    \A i, j \in SimIds : SameRun(i, j) => Agree(i, j)

\* C2 Simulation determinism (amended): two simulators of a PDFA with the
\* same seed, sent the same actions, expose the same states at every
\* position, provided that between the first next() of each (which seeds
\* the shared generator) and its last step nothing else seeds or draws from
\* the shared generator, i.e. the two runs are not interleaved.
C2_Determinism ==
    \A i, j \in SimIds :
        SameRun(i, j) /\ sims[i].alone /\ sims[j].alone => Agree(i, j)

\* Two runs with the same seed, one after the other, of two steps each on
\* the same actions, through two states.
C2_Witness ==
    /\ SameRun(1, 2)
    /\ sims[1].alone /\ sims[2].alone
    /\ sims[1].sent = sims[2].sent
    /\ Len(sims[1].out) = 3 /\ Len(sims[2].out) = 3
    /\ sims[1].out[2] # sims[1].out[3]

====
